---- MODULE Spec2Model ----
(***************************************************************************)
(* Model of the zustand cache store of src/cache.ts.                        *)
(*                                                                         *)
(* src/cache.ts holds two revisions of the store one after the other.  The  *)
(* later revision (lines 193-413) is the one modelled; invalidateIfExpired  *)
(* exists only in the earlier revision (lines 59-71) and is modelled from   *)
(* there.                                                                   *)
(*                                                                         *)
(* The store is built by zustand's create(persist(config, {name:"cache"}))  *)
(* and updated either through set(produce(recipe)) (immer) or by assigning  *)
(* to the objects get() returns.  What the two libraries do is part of what *)
(* the code does:                                                           *)
(*  - set(produce(recipe)) never changes the objects of the old state: it   *)
(*    installs a new tree.  A reference read from get() before the call     *)
(*    still shows the old content afterwards.                               *)
(*  - with immer's autoFreeze the tree a producer returns is deeply frozen; *)
(*    the module is an ES module (strict mode), so an assignment to, or a   *)
(*    delete from, a frozen object throws a TypeError.  Whether autoFreeze  *)
(*    is on depends on the immer release and build, so it is a choice made  *)
(*    once per behaviour (variable autoFreeze).                             *)
(*  - persist wraps set: every set() is followed by setItem of the whole    *)
(*    state under JSON.stringify (no partialize option is given, functions  *)
(*    are dropped by JSON).  An assignment that bypasses set() writes       *)
(*    nothing to storage.                                                   *)
(*  - persist hydrates inside create(): the default storage (localStorage)  *)
(*    is synchronous, so hydration has finished, and the finish-hydration   *)
(*    listeners have been run, when create() returns.                       *)
(***************************************************************************)
EXTENDS Integers, FiniteSets, TLC

\* ---------------------------------------------------------------- inputs
StoreNames == {"s1", "s2"}
Keys == {"k1", "k2"}
\* Payloads (value: any): a truthy number, the falsy number 0, and NaN, which
\* is falsy too and which JSON.stringify writes as null.
Values == {"42", "0", "NaN"}
\* What if (value) takes as false among the values a read can yield.
Falsy == {"0", "NaN", "null", "undefined"}
\* What a read yields when it returns no value.
Absent == {"null", "undefined"}

DefaultExpiry == 60 * 60 * 1000
ShortExpiry == 1
MaxStat == 2
\* Calls of the cache's operations made in one behaviour.
MaxCalls == 3
\* Clock readings: an entry written at 0 is exactly ShortExpiry old at the
\* second and older than DefaultExpiry at the third; one written at the
\* second is exactly DefaultExpiry old at the third.
Times == {0, ShortExpiry, DefaultExpiry + ShortExpiry}

\* Partial<Policy> arguments: records holding a subset of Policy's fields.
\* pruneOnSessionStart is read from the global policy only (line 410), so it
\* is overridden in setGlobalPolicy alone.
StorePartials ==
    { [invalidationPolicy |-> "never"], [invalidationPolicy |-> "always"],
      [expiry |-> ShortExpiry] }
PartialPolicies == StorePartials \cup { [pruneOnSessionStart |-> FALSE] }
EmptyPartial == <<>>

VARIABLES
    stores,        \* get().stores: store name -> [cached, policy]
    globalPolicy,  \* get().globalPolicy
    stats,         \* get()._debugStatistics
    persisted,     \* the storage item "cache": {} or {the JSON of the state}
    frozen,        \* the state tree is frozen (immer autoFreeze)
    autoFreeze,    \* immer freezes what producers return
    now,           \* Date.now()
    last,          \* the last call: operation, arguments, result
    calls          \* the number of calls made so far

vars == <<stores, globalPolicy, stats, persisted, frozen, autoFreeze, now, last, calls>>

\* ---------------------------------------------------------------- objects
\* { ...base, ...partial }
Merge(base, partial) ==
    [f \in DOMAIN base |-> IF f \in DOMAIN partial THEN partial[f] ELSE base[f]]

\* obj[key] = val on a plain object
Put(obj, key, val) ==
    [k \in DOMAIN obj \cup {key} |-> IF k = key THEN val ELSE obj[k]]

\* delete obj[key]
Delete(obj, key) == [k \in DOMAIN obj \ {key} |-> obj[k]]

EmptyObject == <<>>

InitialGlobalPolicy ==
    [invalidationPolicy |-> "on-expiry",
     expiry |-> DefaultExpiry,
     pruneOnSessionStart |-> TRUE]

InitialStatistics == [hits |-> 0, misses |-> 0, invalidationsDueToExpiry |-> 0]

\* The data part of a state: what get() returns, without the functions.
State(st, gp, ds) == [stores |-> st, globalPolicy |-> gp, _debugStatistics |-> ds]

\* ---------------------------------------------------------------- JSON
\* JSON.parse(JSON.stringify(v)) of a payload: a finite number is read back
\* unchanged, NaN is written as null.
JsonValue(v) == IF v = "NaN" THEN "null" ELSE v

\* JSON.parse(JSON.stringify(state)), the item persist stores: the functions
\* of the state are dropped and every data field is kept, stores,
\* globalPolicy and _debugStatistics alike (the options at lines 402-404 name
\* no partialize).
ToJSON(s) ==
    [stores |->
        [n \in DOMAIN s.stores |->
            [cached |->
                [k \in DOMAIN s.stores[n].cached |->
                    [value |-> JsonValue(s.stores[n].cached[k].value),
                     assignedAt |-> s.stores[n].cached[k].assignedAt]],
             policy |-> s.stores[n].policy]],
     globalPolicy |-> s.globalPolicy,
     _debugStatistics |-> s._debugStatistics]

\* A world: the state, the storage item and whether the tree is frozen.
World(s, p, f) == [state |-> s, persisted |-> p, frozen |-> f]

Current == World(State(stores, globalPolicy, stats), persisted, frozen)

\* set(produce(recipe)) with a recipe that changes the draft into s: the new
\* tree is installed, frozen under autoFreeze, and written to storage.
SetProduce(w, s) == World(s, {ToJSON(s)}, autoFreeze)

\* An assignment to, or a delete from, an object of the state outside set():
\* a TypeError on a frozen tree; otherwise the object changes in place and
\* nothing is written to storage.
Throws(w) == w.frozen
Assign(w, s) == World(s, w.persisted, w.frozen)

Result(w, ret) == [w |-> w, ret |-> ret]

\* ---------------------------------------------------------------- operations
\* lines 387-393: _incrementHits
incrementHits(w) ==
    SetProduce(w, [w.state EXCEPT !._debugStatistics.hits = @ + 1])

\* lines 394-400: _incrementMisses
incrementMisses(w) ==
    SetProduce(w, [w.state EXCEPT !._debugStatistics.misses = @ + 1])

\* Mutant of createStore: the check that the store exists is missing.
createStoreOverwrite(w, store, policy) ==
    SetProduce(w,
        [w.state EXCEPT !.stores =
            Put(@, store, [cached |-> EmptyObject,
                           policy |-> Merge(w.state.globalPolicy, policy)])])

\* lines 334-347
createStore(w, store, policy) ==
    IF store \in DOMAIN w.state.stores THEN w
    ELSE SetProduce(w,
            [w.state EXCEPT !.stores =
                Put(@, store, [cached |-> EmptyObject,
                               policy |-> Merge(w.state.globalPolicy, policy)])])

\* Mutant of Expired: the comparison made inclusive.
ExpiredInclusive(entry, policy) == entry.assignedAt + policy.expiry <= now

\* lines 291-294: assignedAt + expiry < Date.now()
Expired(entry, policy) == entry.assignedAt + policy.expiry < now

\* Mutant of prune: the policy guard lets every policy but 'always' through.
pruneUnlessAlways(w, store, key) ==
    LET st == w.state.stores IN
    IF store \notin DOMAIN st THEN w
    ELSE IF st[store].policy.invalidationPolicy = "always" THEN w
    ELSE IF key \notin DOMAIN st[store].cached THEN w
    ELSE IF Expired(st[store].cached[key], st[store].policy)
         THEN SetProduce(w, [w.state EXCEPT !.stores[store].cached = Delete(@, key)])
         ELSE w

\* lines 286-301
prune(w, store, key) ==
    LET st == w.state.stores IN
    IF store \notin DOMAIN st THEN w
    ELSE IF st[store].policy.invalidationPolicy # "on-expiry" THEN w
    ELSE IF key \notin DOMAIN st[store].cached THEN w
    ELSE IF Expired(st[store].cached[key], st[store].policy)
         THEN SetProduce(w, [w.state EXCEPT !.stores[store].cached = Delete(@, key)])
         ELSE w

\* Mutant of PruneKeys: the loop ends after the first key.
PruneKeysFirstOnly(w, store, keys) ==
    IF keys = {} THEN w
    ELSE prune(w, store, CHOOSE k \in keys : TRUE)

\* lines 306-308: for (const key in storeInstance.cached) prune(store, key).
\* The keys are those of the object read before the loop; the result does not
\* depend on the order, each prune touching its own key only.
RECURSIVE PruneKeys(_, _, _)
PruneKeys(w, store, keys) ==
    IF keys = {} THEN w
    ELSE LET key == CHOOSE k \in keys : TRUE
         IN PruneKeys(prune(w, store, key), store, keys \ {key})

\* lines 302-309
pruneAll(w, store) ==
    IF store \notin DOMAIN w.state.stores THEN w
    ELSE PruneKeys(w, store, DOMAIN w.state.stores[store].cached)

\* lines 312-314: for (const store in stores) get().pruneAll(store)
RECURSIVE PruneStores(_, _)
PruneStores(w, names) ==
    IF names = {} THEN w
    ELSE LET store == CHOOSE n \in names : TRUE
         IN PruneStores(pruneAll(w, store), names \ {store})

\* lines 310-315
pruneAllStores(w) == PruneStores(w, DOMAIN w.state.stores)

\* Mutant of getValue: a missing store is reported absent and not created.
getValueWithoutCreate(w, store, key) ==
    IF store \notin DOMAIN w.state.stores
    THEN Result(w, "null")
    ELSE LET storeInstance == w.state.stores[store]
             pruned == prune(w, store, key)
             value == IF key \in DOMAIN storeInstance.cached
                      THEN storeInstance.cached[key].value
                      ELSE "undefined"
         IN Result(IF value \notin Falsy THEN incrementHits(pruned)
                                         ELSE incrementMisses(pruned),
                   value)

\* lines 316-333.  storeInstance is read before prune runs; prune installs a
\* new tree, so storeInstance.cached[key] is the entry as it was before.
getValue(w, store, key) ==
    IF store \notin DOMAIN w.state.stores
    THEN Result(createStore(w, store, EmptyPartial), "null")
    ELSE LET storeInstance == w.state.stores[store]
             pruned == prune(w, store, key)
             value == IF key \in DOMAIN storeInstance.cached
                      THEN storeInstance.cached[key].value
                      ELSE "undefined"
         IN Result(IF value \notin Falsy THEN incrementHits(pruned)
                                         ELSE incrementMisses(pruned),
                   value)

\* Mutant of setValue: an entry that exists keeps its assignedAt.
setValueKeepTimestamp(w, store, key, value) ==
    LET created == createStore(w, store, EmptyPartial)
        old == created.state.stores[store].cached
    IN SetProduce(created,
          [created.state EXCEPT !.stores[store].cached =
              Put(@, key, [value |-> value,
                           assignedAt |-> IF key \in DOMAIN old
                                          THEN old[key].assignedAt ELSE now])])

\* lines 348-361
setValue(w, store, key, value) ==
    LET created == createStore(w, store, EmptyPartial)
    IN SetProduce(created,
          [created.state EXCEPT !.stores[store].cached =
              Put(@, key, [value |-> value, assignedAt |-> now])])

\* Mutant of setGlobalPolicy: the fields are merged into every store too.
setGlobalPolicyPropagating(w, policy) ==
    SetProduce(w, [w.state EXCEPT
        !.globalPolicy = Merge(@, policy),
        !.stores = [n \in DOMAIN @ |-> [@[n] EXCEPT !.policy = Merge(@, policy)]]])

\* lines 362-368
setGlobalPolicy(w, policy) ==
    SetProduce(w, [w.state EXCEPT !.globalPolicy = Merge(@, policy)])

\* Mutant of setStorePolicy: a missing store is created with the policy.
setStorePolicyCreating(w, store, policy) ==
    IF store \notin DOMAIN w.state.stores
    THEN Result(createStore(w, store, policy), "undefined")
    ELSE Result(SetProduce(w, [w.state EXCEPT !.stores[store].policy = Merge(@, policy)]),
                "undefined")

\* lines 369-378: on a missing store state.stores[store] is undefined and the
\* recipe throws a TypeError; set is not reached.
setStorePolicy(w, store, policy) ==
    IF store \notin DOMAIN w.state.stores THEN Result(w, "TypeError")
    ELSE Result(SetProduce(w, [w.state EXCEPT !.stores[store].policy = Merge(@, policy)]),
                "undefined")

\* Mutant of invalidate: the key is deleted from every store.
invalidateEverywhere(w, store, key) ==
    LET st == w.state.stores IN
    IF store \notin DOMAIN st THEN Result(w, "false")
    ELSE IF key \notin DOMAIN st[store].cached THEN Result(w, "false")
    ELSE IF st[store].policy.invalidationPolicy = "never" THEN Result(w, "false")
    ELSE Result(SetProduce(w, [w.state EXCEPT !.stores =
                    [n \in DOMAIN st |-> [st[n] EXCEPT !.cached = Delete(@, key)]]]),
                "true")

\* Mutant of invalidate: the check that the key is cached is missing.
invalidateUnchecked(w, store, key) ==
    LET st == w.state.stores IN
    IF store \notin DOMAIN st THEN Result(w, "false")
    ELSE IF st[store].policy.invalidationPolicy = "never" THEN Result(w, "false")
    ELSE Result(SetProduce(w, [w.state EXCEPT !.stores[store].cached = Delete(@, key)]),
                "true")

\* lines 250-263
invalidate(w, store, key) ==
    LET st == w.state.stores IN
    IF store \notin DOMAIN st THEN Result(w, "false")
    ELSE IF key \notin DOMAIN st[store].cached THEN Result(w, "false")
    ELSE IF st[store].policy.invalidationPolicy = "never" THEN Result(w, "false")
    ELSE Result(SetProduce(w, [w.state EXCEPT !.stores[store].cached = Delete(@, key)]),
                "true")

\* Mutant of invalidateIfExpired: assignedAt is read without the ?. guard, so
\* a missing key raises a TypeError.
invalidateIfExpiredUnguarded(w, store, key) ==
    LET st == w.state.stores IN
    IF store \notin DOMAIN st THEN Result(w, "false")
    ELSE IF st[store].policy.invalidationPolicy = "never" THEN Result(w, "false")
    ELSE IF key \notin DOMAIN st[store].cached THEN Result(w, "TypeError")
    ELSE IF Expired(st[store].cached[key], st[store].policy)
         THEN IF Throws(w) THEN Result(w, "TypeError")
              ELSE Result(Assign(w, [w.state EXCEPT !.stores[store].cached = Delete(@, key)]),
                          "true")
         ELSE Result(w, "false")

\* lines 59-71 (earlier revision): delete storeInstance.cached[key] outside set().
\* On a missing key undefined + expiry is NaN and the comparison is false.
invalidateIfExpired(w, store, key) ==
    LET st == w.state.stores IN
    IF store \notin DOMAIN st THEN Result(w, "false")
    ELSE IF st[store].policy.invalidationPolicy = "never" THEN Result(w, "false")
    ELSE IF key \in DOMAIN st[store].cached
            /\ Expired(st[store].cached[key], st[store].policy)
         THEN IF Throws(w) THEN Result(w, "TypeError")
              ELSE Result(Assign(w, [w.state EXCEPT !.stores[store].cached = Delete(@, key)]),
                          "true")
         ELSE Result(w, "false")

\* lines 264-270: storeInstance.cached = {} outside set()
invalidateAll(w, store) ==
    LET st == w.state.stores IN
    IF store \notin DOMAIN st THEN Result(w, "false")
    ELSE IF st[store].policy.invalidationPolicy = "never" THEN Result(w, "false")
    ELSE IF Throws(w) THEN Result(w, "TypeError")
    ELSE Result(Assign(w, [w.state EXCEPT !.stores[store].cached = EmptyObject]), "true")

\* lines 271-279: storeInstance.cached = {} outside set()
invalidateAllOrThrow(w, store) ==
    LET st == w.state.stores IN
    IF store \notin DOMAIN st THEN Result(w, "Error")
    ELSE IF st[store].policy.invalidationPolicy = "never" THEN Result(w, "Error")
    ELSE IF Throws(w) THEN Result(w, "TypeError")
    ELSE Result(Assign(w, [w.state EXCEPT !.stores[store].cached = EmptyObject]),
                "undefined")

\* lines 280-285: stores[store].cached = {} for every store, outside set();
\* on a frozen tree the first assignment throws.
invalidateAllStores(w) ==
    LET st == w.state.stores IN
    IF st = EmptyObject THEN Result(w, "undefined")
    ELSE IF Throws(w) THEN Result(w, "TypeError")
    ELSE Result(Assign(w, [w.state EXCEPT !.stores =
                    [n \in DOMAIN st |-> [st[n] EXCEPT !.cached = EmptyObject]]]),
                "undefined")

\* ---------------------------------------------------------------- start
\* lines 244-249, 382-386: the state the config function returns
CreatedState == State(EmptyObject, InitialGlobalPolicy, InitialStatistics)

\* lines 408-413: the finish-hydration callback
onFinishHydration(w) ==
    IF w.state.globalPolicy.pruneOnSessionStart THEN pruneAllStores(w) ELSE w

\* persist's hydrate(), run by create() (lines 241-243, 402-406): the item, if
\* any, is merged over the created state ({...current, ...persisted}) and
\* installed as is (parsed objects are not frozen); then the finish-hydration
\* listeners registered so far are run.
Hydrate(item, listening) ==
    LET merged == IF item = {} THEN CreatedState
                  ELSE Merge(CreatedState, CHOOSE i \in item : TRUE)
        w == World(merged, item, FALSE)
    IN IF listening THEN onFinishHydration(w) ELSE w

\* Evaluation of the module: create(persist(...)) at lines 241-406 hydrates
\* before it returns, and only then does line 408 register the callback, so
\* no listener is registered while the hydration of the session runs.
ModuleLoad(item) == Hydrate(item, FALSE)

\* After hydrating, persist releases differ in whether they write the merged
\* state back to storage.
StorageAfterLoad(w) == {w.persisted, {ToJSON(w.state)}}

\* ---------------------------------------------------------------- actions
Call(op, store, key, ret, had) ==
    [op |-> op, store |-> store, key |-> key, ret |-> ret, had |-> had,
     arg |-> EmptyPartial]

\* The call with its policy or value argument.
WithArg(c, arg) == [c EXCEPT !.arg = arg]

\* A call can be made; it is recorded.
CanCall == calls < MaxCalls
Record(c) == calls' = calls + 1 /\ last' = c

\* The entry of (store, key), as a set: empty when there is none.
EntryOf(st, store, key) ==
    IF store \in DOMAIN st /\ key \in DOMAIN st[store].cached
    THEN {st[store].cached[key]} ELSE {}

\* The entries of a store, as a set: empty when there is no such store.
EntriesOf(st, store) ==
    IF store \in DOMAIN st
    THEN {st[store].cached[k] : k \in DOMAIN st[store].cached} ELSE {}

Install(w) ==
    /\ stores' = w.state.stores
    /\ globalPolicy' = w.state.globalPolicy
    /\ stats' = w.state._debugStatistics
    /\ persisted' = w.persisted
    /\ frozen' = w.frozen
    /\ UNCHANGED <<autoFreeze, now>>

Init ==
    /\ stores = CreatedState.stores
    /\ globalPolicy = CreatedState.globalPolicy
    /\ stats = CreatedState._debugStatistics
    /\ persisted \in StorageAfterLoad(ModuleLoad({}))
    /\ frozen = FALSE
    /\ autoFreeze \in BOOLEAN
    /\ now = 0
    /\ last = Call("load", "", "", "undefined", {})
    /\ calls = 0

Tick ==
    /\ \E t \in Times : t > now /\ now' = t
    /\ UNCHANGED <<stores, globalPolicy, stats, persisted, frozen, autoFreeze, last, calls>>

\* The page is loaded again: a new process evaluates the module.
Restart ==
    /\ CanCall
    /\ \E w \in {ModuleLoad(persisted)} :
        /\ \E p \in StorageAfterLoad(w) : Install(World(w.state, p, w.frozen))
        /\ Record(Call("load", "", "", "undefined", {}))

DoCreateStore ==
    /\ CanCall
    /\ \E store \in StoreNames, policy \in StorePartials \cup {EmptyPartial} :
        \E w \in {createStore(Current, store, policy)} :
        /\ Install(w)
        /\ Record(WithArg(Call("createStore", store, "", "undefined", {}), policy))

DoSetValue ==
    /\ CanCall
    /\ \E store \in StoreNames, key \in Keys, value \in Values :
        \E w \in {setValue(Current, store, key, value)} :
        /\ Install(w)
        /\ Record(WithArg(Call("setValue", store, key, "undefined",
                                EntryOf(stores, store, key)), value))

DoGetValue ==
    /\ CanCall
    /\ stats.hits + stats.misses < MaxStat
    /\ \E store \in StoreNames, key \in Keys :
        \E r \in {getValue(Current, store, key)} :
        /\ Install(r.w)
        /\ Record(Call("getValue", store, key, r.ret, EntryOf(stores, store, key)))

DoSetGlobalPolicy ==
    /\ CanCall
    /\ \E policy \in PartialPolicies :
        \E w \in {setGlobalPolicy(Current, policy)} :
        /\ Install(w)
        /\ Record(WithArg(Call("setGlobalPolicy", "", "", "undefined", {}), policy))

DoSetStorePolicy ==
    /\ CanCall
    /\ \E store \in StoreNames, policy \in StorePartials :
        \E r \in {setStorePolicy(Current, store, policy)} :
        /\ Install(r.w)
        /\ Record(WithArg(Call("setStorePolicy", store, "", r.ret, {}), policy))

DoInvalidate ==
    /\ CanCall
    /\ \E store \in StoreNames, key \in Keys :
        \E r \in {invalidate(Current, store, key)} :
        /\ Install(r.w)
        /\ Record(Call("invalidate", store, key, r.ret, EntryOf(stores, store, key)))

DoInvalidateIfExpired ==
    /\ CanCall
    /\ \E store \in StoreNames, key \in Keys :
        \E r \in {invalidateIfExpired(Current, store, key)} :
        /\ Install(r.w)
        /\ Record(Call("invalidateIfExpired", store, key, r.ret,
                        EntryOf(stores, store, key)))

DoInvalidateAll ==
    /\ CanCall
    /\ \E store \in StoreNames :
        \E r \in {invalidateAll(Current, store)} :
        /\ Install(r.w)
        /\ Record(Call("invalidateAll", store, "", r.ret, {}))

DoInvalidateAllOrThrow ==
    /\ CanCall
    /\ \E store \in StoreNames :
        \E r \in {invalidateAllOrThrow(Current, store)} :
        /\ Install(r.w)
        /\ Record(Call("invalidateAllOrThrow", store, "", r.ret, {}))

DoInvalidateAllStores ==
    /\ CanCall
    /\ \E r \in {invalidateAllStores(Current)} :
        /\ Install(r.w)
        /\ Record(Call("invalidateAllStores", "", "", r.ret, {}))

DoPrune ==
    /\ CanCall
    /\ \E store \in StoreNames, key \in Keys :
        \E w \in {prune(Current, store, key)} :
        /\ Install(w)
        /\ Record(Call("prune", store, key, "undefined", EntryOf(stores, store, key)))

DoPruneAll ==
    /\ CanCall
    /\ \E store \in StoreNames :
        \E w \in {pruneAll(Current, store)} :
        /\ Install(w)
        /\ Record(Call("pruneAll", store, "", "undefined", EntriesOf(stores, store)))

DoPruneAllStores ==
    /\ CanCall
    /\ \E w \in {pruneAllStores(Current)} :
        /\ Install(w)
        /\ Record(Call("pruneAllStores", "", "", "undefined", {}))

Next ==
    \/ Tick
    \/ Restart
    \/ DoCreateStore
    \/ DoSetValue
    \/ DoGetValue
    \/ DoSetGlobalPolicy
    \/ DoSetStorePolicy
    \/ DoInvalidate
    \/ DoInvalidateIfExpired
    \/ DoInvalidateAll
    \/ DoInvalidateAllOrThrow
    \/ DoInvalidateAllStores
    \/ DoPrune
    \/ DoPruneAll
    \/ DoPruneAllStores

Spec == Init /\ [][Next]_vars

\* ---------------------------------------------------------------- claims
\* The step is a call of op.
Called(op) == calls' = calls + 1 /\ last'.op = op

\* The world after the step.
After == World(State(stores', globalPolicy', stats'), persisted', frozen')

Has(st, store, key) == store \in DOMAIN st /\ key \in DOMAIN st[store].cached

\* now - assignedAt > expiry
Overdue(store, entry) == now - entry.assignedAt > store.policy.expiry

\* The step removed the entry of (store, key) and changed nothing else of the
\* registry.
RemovedExactly(store, key) ==
    /\ DOMAIN stores' = DOMAIN stores
    /\ \A n \in DOMAIN stores :
          /\ stores'[n].policy = stores[n].policy
          /\ DOMAIN stores'[n].cached =
                IF n = store THEN DOMAIN stores[n].cached \ {key}
                             ELSE DOMAIN stores[n].cached
          /\ \A k \in DOMAIN stores'[n].cached :
                stores'[n].cached[k] = stores[n].cached[k]

Thrown == {"Error", "TypeError"}

\* C1: a call of invalidate, invalidateIfExpired, invalidateAll,
\* invalidateAllOrThrow, prune, pruneAll, pruneAllStores or getValue, at any
\* clock value, removes no entry from a store whose policy is 'never' when the
\* call is made.
NeverGuardedOps ==
    {"invalidate", "invalidateIfExpired", "invalidateAll", "invalidateAllOrThrow",
     "prune", "pruneAll", "pruneAllStores", "getValue"}

NeverStoresKeepEntries ==
    [][(calls' = calls + 1 /\ last'.op \in NeverGuardedOps) =>
          \A n \in DOMAIN stores :
              stores[n].policy.invalidationPolicy = "never" =>
                  /\ n \in DOMAIN stores'
                  /\ DOMAIN stores[n].cached \subseteq DOMAIN stores'[n].cached]_vars

\* C1 witness: a removing operation was just called on an overdue entry of a
\* 'never' store, and the entry is still there.
NeverStoreSurvived ==
    /\ last.op \in {"invalidate", "invalidateIfExpired", "prune"}
    /\ Has(stores, last.store, last.key)
    /\ stores[last.store].policy.invalidationPolicy = "never"
    /\ Overdue(stores[last.store], stores[last.store].cached[last.key])

\* C2: prune(store, key) removes the entry, and nothing else, if and only if
\* the store's policy is 'on-expiry' and now - assignedAt > expiry; in every
\* other case (age equal to expiry, 'always', 'never', store or key missing)
\* it leaves the registry unchanged.
PruneRemovesIffOverdue ==
    [][Called("prune") =>
          LET s == last'.store
              k == last'.key
          IN /\ globalPolicy' = globalPolicy
             /\ IF /\ Has(stores, s, k)
                   /\ stores[s].policy.invalidationPolicy = "on-expiry"
                   /\ Overdue(stores[s], stores[s].cached[k])
                THEN RemovedExactly(s, k)
                ELSE stores' = stores]_vars

\* C2 witness: prune was called on an entry that existed and is gone.
PruneRemoved ==
    /\ last.op = "prune"
    /\ last.had # {}
    /\ last.store \in DOMAIN stores
    /\ last.key \notin DOMAIN stores[last.store].cached

\* C3: in an 'on-expiry' store, getValue of an entry written at t returns its
\* value and counts a hit at any time <= t + expiry; at any time > t + expiry
\* it returns absent, counts a miss and the entry is gone afterwards, so that
\* getValue never returns the value of an entry older than expiry.  The
\* second half, the read past expiry, is stated here; the hit of the first
\* half is the subject of C4.
ReadPastExpiryIsAbsent ==
    [][Called("getValue") =>
          LET s == last'.store
              k == last'.key
          IN (/\ Has(stores, s, k)
              /\ stores[s].policy.invalidationPolicy = "on-expiry"
              /\ now > stores[s].cached[k].assignedAt + stores[s].policy.expiry) =>
                /\ last'.ret \in Absent
                /\ stats'.misses = stats.misses + 1
                /\ stats'.hits = stats.hits
                /\ ~Has(stores', s, k)]_vars

\* C4: setValue(s, k, v) immediately followed by getValue(s, k) at the same
\* clock value returns v, adds one to hits and leaves misses unchanged, for
\* every payload v.
WriteThenReadHits ==
    [][(/\ Called("getValue")
        /\ last.op = "setValue"
        /\ last'.store = last.store
        /\ last'.key = last.key
        /\ Has(stores, last.store, last.key)
        /\ stores[last.store].cached[last.key].assignedAt = now) =>
          /\ last'.ret = stores[last.store].cached[last.key].value
          /\ stats'.hits = stats.hits + 1
          /\ stats'.misses = stats.misses]_vars

\* C5: invalidateAllOrThrow(store) signals failure and changes nothing when
\* the store is missing or its policy is 'never'; on any other store it signals
\* success, and afterwards the store has no entries for every later read, its
\* policy and the other stores being unchanged.
InvalidateAllOrThrowClears ==
    [][Called("invalidateAllOrThrow") =>
          LET s == last'.store IN
          IF s \notin DOMAIN stores \/ stores[s].policy.invalidationPolicy = "never"
          THEN /\ last'.ret \in Thrown
               /\ stores' = stores
               /\ globalPolicy' = globalPolicy
          ELSE /\ last'.ret \notin Thrown
               /\ DOMAIN stores' = DOMAIN stores
               /\ DOMAIN stores'[s].cached = {}
               /\ stores'[s].policy = stores[s].policy
               /\ \A n \in DOMAIN stores \ {s} : stores'[n] = stores[n]
               /\ \A k \in Keys : getValue(After, s, k).ret \in Absent]_vars

\* C6: a state that has been persisted and is hydrated by a fresh process
\* comes back with the same stores, policies, global policy and entries, and
\* with hits and misses at zero.  The states taken are those JSON writes
\* without loss: the item in storage is the state itself.
RoundTrip ==
    [][(Called("load") /\ persisted = {State(stores, globalPolicy, stats)}) =>
          /\ stores' = stores
          /\ globalPolicy' = globalPolicy
          /\ stats'.hits = 0
          /\ stats'.misses = 0]_vars

\* C7: when the module has been loaded, if the restored global policy has
\* pruneOnSessionStart then pruneAllStores has run, so that no 'on-expiry'
\* store holds an entry older than its expiry when the first read is made;
\* otherwise, or with no persisted state, hydration removed no entry.
PrunedOnSessionStart ==
    [][Called("load") =>
          IF persisted # {} /\ globalPolicy'.pruneOnSessionStart
          THEN \A n \in DOMAIN stores' :
                  stores'[n].policy.invalidationPolicy = "on-expiry" =>
                      \A k \in DOMAIN stores'[n].cached :
                          ~(now' - stores'[n].cached[k].assignedAt
                                > stores'[n].policy.expiry)
          ELSE \A item \in persisted : stores' = item.stores]_vars

\* C8: between calls the persisted registry and global policy are those of
\* the in-memory state (an empty storage standing for the created state).
PersistedFollowsMemory ==
    \A item \in (IF persisted = {} THEN {ToJSON(CreatedState)} ELSE persisted) :
        /\ item.stores = ToJSON(State(stores, globalPolicy, stats)).stores
        /\ item.globalPolicy = globalPolicy

\* C9: every getValue adds one to exactly one counter, hits when it returns a
\* value and misses when it returns absent, on the path that creates the
\* store too; no call within a session lowers a counter.
EveryReadCounted ==
    [][/\ Called("getValue") =>
            IF last'.ret \in Absent
            THEN stats'.misses = stats.misses + 1 /\ stats'.hits = stats.hits
            ELSE stats'.hits = stats.hits + 1 /\ stats'.misses = stats.misses
       /\ (calls' = calls + 1 /\ last'.op # "load") =>
            stats'.hits >= stats.hits /\ stats'.misses >= stats.misses]_vars

AbsentKeyOps == {"invalidate", "invalidateIfExpired", "prune"}

ReadCreatesMissingStore ==
    [][Called("getValue") =>
          LET s == last'.store IN
          IF s \notin DOMAIN stores
          THEN /\ last'.ret \in Absent
               /\ stores' = Put(stores, s, [cached |-> EmptyObject,
                                            policy |-> globalPolicy])
          ELSE /\ DOMAIN stores' = DOMAIN stores
               /\ stores'[s].policy = stores[s].policy]_vars

\* C12 witness: getValue has just created a store, after the global policy
\* had been changed, and the store has the changed policy.
ReadCreatedStore ==
    /\ last.op = "getValue"
    /\ last.ret = "null"
    /\ last.store \in DOMAIN stores
    /\ stores[last.store] = [cached |-> EmptyObject, policy |-> globalPolicy]
    /\ globalPolicy # InitialGlobalPolicy

\* C13: createStore(name, partialPolicy) on a name that is in the registry
\* changes nothing, whatever partialPolicy is; on a new name it adds a store
\* with no entries whose policy is the current global policy with the fields
\* of partialPolicy over it, and changes nothing else.
CreateStoreOnce ==
    [][Called("createStore") =>
          LET s == last'.store IN
          /\ globalPolicy' = globalPolicy
          /\ IF s \in DOMAIN stores
             THEN stores' = stores
             ELSE stores' = Put(stores, s,
                                [cached |-> EmptyObject,
                                 policy |-> Merge(globalPolicy, last'.arg)])]_vars

\* C13 witness: createStore was called on a store that holds entries, with
\* a partial policy that differs from the store's policy.
CreateStoreOnExisting ==
    /\ last.op = "createStore"
    /\ last.store \in DOMAIN stores
    /\ DOMAIN stores[last.store].cached # {}
    /\ Merge(stores[last.store].policy, last.arg) # stores[last.store].policy

\* C14: setGlobalPolicy(partial) merges partial into the global policy and
\* leaves every store as it is; a store that a call adds to the registry gets
\* the global policy of that moment with the call's overrides over it.
NewStoreOverrides == IF last'.op = "createStore" THEN last'.arg ELSE EmptyPartial

PolicySnapshot ==
    [][/\ Called("setGlobalPolicy") =>
            /\ stores' = stores
            /\ globalPolicy' = Merge(globalPolicy, last'.arg)
       /\ (calls' = calls + 1 /\ last'.op # "load") =>
            \A n \in DOMAIN stores' \ DOMAIN stores :
                stores'[n].policy = Merge(globalPolicy, NewStoreOverrides)]_vars

\* C14 witness: setGlobalPolicy has just set a field, and an existing store
\* still has another value of that field.
StoreKeptOldDefault ==
    /\ last.op = "setGlobalPolicy"
    /\ \E n \in DOMAIN stores : \E f \in DOMAIN last.arg :
          /\ globalPolicy[f] = last.arg[f]
          /\ stores[n].policy[f] # globalPolicy[f]

\* C15: invalidateAllStores() raises no error and afterwards every store, the
\* 'never' stores included, has no entries for every later read, while the
\* store names, every store's policy and the global policy are unchanged.
InvalidateAllStoresClears ==
    [][Called("invalidateAllStores") =>
          /\ last'.ret \notin Thrown
          /\ globalPolicy' = globalPolicy
          /\ DOMAIN stores' = DOMAIN stores
          /\ \A n \in DOMAIN stores :
                /\ stores'[n].policy = stores[n].policy
                /\ DOMAIN stores'[n].cached = {}
                /\ \A k \in Keys : getValue(After, n, k).ret \in Absent]_vars

\* C16: setStorePolicy(name, partial) on a name that is not in the registry
\* fails and leaves the registry and the global policy unchanged; on an
\* existing store it merges partial into that store's policy and changes
\* nothing else.
SetStorePolicyMerges ==
    [][Called("setStorePolicy") =>
          LET s == last'.store IN
          /\ globalPolicy' = globalPolicy
          /\ IF s \notin DOMAIN stores
             THEN last'.ret \in Thrown /\ stores' = stores
             ELSE /\ last'.ret \notin Thrown
                  /\ stores' = [stores EXCEPT ![s].policy = Merge(@, last'.arg)]]_vars

\* C16 witness: setStorePolicy has just failed on a missing name while the
\* registry holds another store.
SetStorePolicyFailed ==
    /\ last.op = "setStorePolicy"
    /\ last.ret \in Thrown
    /\ last.store \notin DOMAIN stores
    /\ DOMAIN stores # {}

\* C17: invalidateIfExpired(store, key) removes the entry, and nothing else,
\* and returns true if and only if the store exists, its policy is not
\* 'never', the key is present and now - assignedAt > expiry; in every other
\* case it returns false and leaves the registry unchanged.
InvalidateIfExpiredRemovesIffOverdue ==
    [][Called("invalidateIfExpired") =>
          LET s == last'.store
              k == last'.key
          IN IF /\ Has(stores, s, k)
                /\ stores[s].policy.invalidationPolicy # "never"
                /\ Overdue(stores[s], stores[s].cached[k])
             THEN last'.ret = "true" /\ RemovedExactly(s, k)
             ELSE last'.ret = "false" /\ stores' = stores]_vars

\* The store without its entries older than its expiry.
WithoutOverdue(store) ==
    [store EXCEPT !.cached =
        [k \in {j \in DOMAIN @ : ~Overdue(store, @[j])} |-> @[k]]]

\* The registry with the 'on-expiry' stores among names pruned.
PrunedRegistry(names) ==
    [n \in DOMAIN stores |->
        IF n \in names /\ stores[n].policy.invalidationPolicy = "on-expiry"
        THEN WithoutOverdue(stores[n]) ELSE stores[n]]

\* C18: pruneAll(store) removes from an 'on-expiry' store exactly the entries
\* present at the call with now - assignedAt > expiry, keeps every other
\* entry and changes nothing else; pruneAllStores() does so for every store,
\* and afterwards no 'on-expiry' store holds an entry older than its expiry.
PruneAllRemovesOverdue ==
    [][/\ Called("pruneAll") =>
            /\ stores' = PrunedRegistry({last'.store})
            /\ globalPolicy' = globalPolicy
            /\ last'.ret \notin Thrown
       /\ Called("pruneAllStores") =>
            /\ stores' = PrunedRegistry(DOMAIN stores)
            /\ globalPolicy' = globalPolicy
            /\ last'.ret \notin Thrown
            /\ \A n \in DOMAIN stores' :
                  stores'[n].policy.invalidationPolicy = "on-expiry" =>
                      \A k \in DOMAIN stores'[n].cached :
                          ~Overdue(stores'[n], stores'[n].cached[k])]_vars

\* C18 witness: pruneAll was called on an 'on-expiry' store that held an
\* entry older than its expiry and still holds another entry.
PruneAllRemovedSome ==
    /\ last.op = "pruneAll"
    /\ last.store \in DOMAIN stores
    /\ stores[last.store].policy.invalidationPolicy = "on-expiry"
    /\ \E e \in last.had : Overdue(stores[last.store], e)
    /\ DOMAIN stores[last.store].cached # {}

\* The store a write finds or, on a missing name, creates.
StoreForWrite(store) ==
    IF store \in DOMAIN stores THEN stores[store]
    ELSE [cached |-> EmptyObject, policy |-> globalPolicy]

\* C19: operations running one whole call at a time, after every setValue
\* the entry holds the value written and the current time, the store having
\* been created from the current global policy if it was missing, and every
\* other entry, expired or not, is as before; a getValue changes the value
\* and the timestamp of no entry.
LastWriteWins ==
    [][/\ Called("setValue") =>
            LET s == last'.store
                k == last'.key
            IN /\ globalPolicy' = globalPolicy
               /\ stores' =
                     Put(stores, s,
                         [StoreForWrite(s) EXCEPT !.cached =
                             Put(@, k, [value |-> last'.arg, assignedAt |-> now])])
       /\ Called("getValue") =>
            \A n \in DOMAIN stores : \A k \in DOMAIN stores'[n].cached :
                /\ k \in DOMAIN stores[n].cached
                /\ stores'[n].cached[k] = stores[n].cached[k]]_vars

\* C19 witness: setValue has just overwritten an older entry that held
\* another value.
OverwroteEntry ==
    /\ last.op = "setValue"
    /\ Has(stores, last.store, last.key)
    /\ stores[last.store].cached[last.key] = [value |-> last.arg, assignedAt |-> now]
    /\ \E e \in last.had : e.value # last.arg /\ e.assignedAt < now

\* C20: a call of a single-store operation on a store leaves every other
\* store of the registry unchanged, and no call removes a store name from
\* the registry.
SingleStoreOps ==
    {"setValue", "getValue", "invalidate", "invalidateIfExpired", "invalidateAll",
     "invalidateAllOrThrow", "prune", "pruneAll", "setStorePolicy", "createStore"}

StoresIsolated ==
    [][(calls' = calls + 1 /\ last'.op # "load") =>
          /\ DOMAIN stores \subseteq DOMAIN stores'
          /\ last'.op \in SingleStoreOps =>
                \A n \in DOMAIN stores \ {last'.store} : stores'[n] = stores[n]]_vars

\* C20 witness: invalidate has just removed a key from one store, and
\* another store still holds an entry under the same key.
OtherStoreKeptKey ==
    /\ last.op = "invalidate"
    /\ last.ret = "true"
    /\ \E n \in DOMAIN stores \ {last.store} : last.key \in DOMAIN stores[n].cached

====
